---------------------------- MODULE Spec2Model ----------------------------
(***************************************************************************)
(* Streaming answer assembly and citation resolution of the pryzm chat      *)
(* front end: App (src/unnamed/part_000), askQuestionStream                 *)
(* (src/unnamed/part_007) and AnswerText (src/unnamed/part_005).            *)
(*                                                                         *)
(* Texts are sequences of one-character strings, so that the regular       *)
(* expressions of the code (/\[(\d+)\]/g and new RegExp(`\\[${n}\\]`,'g'))   *)
(* are modelled by what they match, character by character.                *)
(***************************************************************************)
EXTENDS Integers, Sequences, FiniteSets, TLC

\* ------------------------------------------------------------- bounds

\* Longest answer text drawn as an input of the text pipeline (SpecText).
MaxTextLen == 6

\* Turns started in one behaviour of the application (Spec).
MaxTurns == 3

\* Most markers of an answer built from whole markers (SpecText).
MaxMarkers == 5

\* Most content events of one response (SpecWire).
MaxContentEvents == 2

\* Most characters of an answer whose display is followed (SpecTick).
MaxBacklog == 60

\* Most events before the done event of a response with malformed events
\* (SpecLines).
MaxLineEvents == 3

\* Most clicks on citation markers (SpecClick).
MaxClicks == 3

\* Largest citation number of a marker that is clicked (SpecClick).
MaxCitation == 3

\* Longest source list of one turn handed to the reconciler (SpecMerge).
MaxSources == 3

\* Most tokens (markers or words) of an answer finalized in SpecRemap.
MaxTokens == 3

\* ------------------------------------------------------- text helpers

NoValue == "undefined"

Range(s) == {s[i] : i \in DOMAIN s}

Min(a, b) == IF a <= b THEN a ELSE b

SetMin(S) == CHOOSE x \in S : \A y \in S : x <= y

\* \d of the regular expressions
IsDigit(c) == c \in {"0", "1", "2", "3", "4", "5", "6", "7", "8", "9"}

DigitVal(c) ==
  CASE c = "0" -> 0 [] c = "1" -> 1 [] c = "2" -> 2 [] c = "3" -> 3
    [] c = "4" -> 4 [] c = "5" -> 5 [] c = "6" -> 6 [] c = "7" -> 7
    [] c = "8" -> 8 [] c = "9" -> 9

DigitChar(d) == <<"0", "1", "2", "3", "4", "5", "6", "7", "8", "9">>[d + 1]

\* parseInt(match[1]) on a run of decimal digits
RECURSIVE parseInt(_)
parseInt(ds) ==
  IF Len(ds) = 0 THEN 0
  ELSE 10 * parseInt(SubSeq(ds, 1, Len(ds) - 1)) + DigitVal(ds[Len(ds)])

\* `${n}` of a non-negative integer: its canonical decimal digits
RECURSIVE NumToStr(_)
NumToStr(n) ==
  IF n < 10 THEN <<DigitChar(n)>>
  ELSE NumToStr(n \div 10) \o <<DigitChar(n % 10)>>

\* `[${n}]`
MarkerText(n) == <<"[">> \o NumToStr(n) \o <<"]">>

\* first index >= i of text that holds no digit (Len(text) + 1 when none)
RECURSIVE DigitRunEnd(_, _)
DigitRunEnd(text, i) ==
  IF i > Len(text) \/ ~IsDigit(text[i]) THEN i ELSE DigitRunEnd(text, i + 1)

\* /\[(\d+)\]/ anchored at index i: the index of the closing bracket, 0 when
\* the pattern does not match there
MatchEnd(text, i) ==
  IF i > Len(text) \/ text[i] # "[" THEN 0
  ELSE LET e == DigitRunEnd(text, i + 1)
       IN  IF e > i + 1 /\ e <= Len(text) /\ text[e] = "]" THEN e ELSE 0

\* the while ((match = citationPattern.exec(answerText)) !== null) loop:
\* acc is citationsInText so far, i the regular expression's lastIndex + 1
RECURSIVE ScanFrom(_, _, _)
ScanFrom(text, i, acc) ==
  IF i > Len(text) THEN acc
  ELSE LET e == MatchEnd(text, i)
       IN  IF e = 0 THEN ScanFrom(text, i + 1, acc)
           ELSE LET citationNum == parseInt(SubSeq(text, i + 1, e - 1))
                IN  ScanFrom(text, e + 1,
                             IF citationNum \in Range(acc) THEN acc
                             ELSE Append(acc, citationNum))

\* renderTextWithCitations of AnswerText: the number of every marker it
\* renders, in order, repeats included (the same expression, the same parseInt)
RECURSIVE MarkersFrom(_, _)
MarkersFrom(text, i) ==
  IF i > Len(text) THEN <<>>
  ELSE LET e == MatchEnd(text, i)
       IN  IF e = 0 THEN MarkersFrom(text, i + 1)
           ELSE <<parseInt(SubSeq(text, i + 1, e - 1))>> \o MarkersFrom(text, e + 1)

MarkerNums(text) == MarkersFrom(text, 1)

\* the scanner without its includes() test
citationsInTextRepeated(answerText) == MarkerNums(answerText)

citationsInText(answerText) == ScanFrom(answerText, 1, <<>>)

\* citationMapping[originalNum] = index + 1
citationMapping(cits) ==
  [n \in Range(cits) |-> CHOOSE i \in DOMAIN cits : cits[i] = n]

\* text.replace(new RegExp(pat, 'g'), rep) for a literal pattern pat
RECURSIVE ReplaceAll(_, _, _, _)
ReplaceAll(text, pat, rep, i) ==
  IF i > Len(text) THEN <<>>
  ELSE IF i + Len(pat) - 1 <= Len(text) /\ SubSeq(text, i, i + Len(pat) - 1) = pat
       THEN rep \o ReplaceAll(text, pat, rep, i + Len(pat))
       ELSE <<text[i]>> \o ReplaceAll(text, pat, rep, i + 1)

\* Object.entries(mapping).forEach(([from, to]) => text = text.replace(...)):
\* the keys of a JavaScript object that are array indices are enumerated in
\* ascending numeric order, whatever the order they were inserted in.
RECURSIVE ApplyEntries(_, _, _)
ApplyEntries(text, mapping, keys) ==
  IF keys = {} THEN text
  ELSE LET k == SetMin(keys)
       IN  ApplyEntries(ReplaceAll(text, MarkerText(k), MarkerText(mapping[k]), 1),
                        mapping, keys \ {k})

RewriteMarkers(text, mapping) == ApplyEntries(text, mapping, DOMAIN mapping)

\* Stage A: updatedAnswerText
updatedAnswerText(answerText) ==
  RewriteMarkers(answerText, citationMapping(citationsInText(answerText)))


\* ------------------------------------------------------ source records

\* One source as the backend sends it (the fields the front end reads).
RawSource(e, d, t, pr) ==
  [evidence_id |-> e, doc_id |-> d, doc_title |-> t, source_url |-> NoValue,
   date |-> NoValue, doctype |-> "pdf", page_range |-> pr, text |-> NoValue]

\* a value JavaScript's || skips
Falsy(v) == v = NoValue \/ v = ""

\* const context = filteredSources.map((source, index) => ({...}))
ContextEntry(source, index) ==
  [rank |-> index,
   original_rank |-> source.evidence_id,
   doc_id |-> source.doc_id,
   title |-> source.doc_title,
   url |-> IF Falsy(source.source_url) THEN "" ELSE source.source_url,
   doc_date |-> IF ~Falsy(source.date) THEN source.date
                ELSE IF ~Falsy(source.doctype) THEN source.doctype
                ELSE "Unknown",
   pageno |-> IF source.page_range # NoValue /\ Len(source.page_range) > 0
              THEN source.page_range[1] ELSE 1,
   snippet |-> IF Falsy(source.text) THEN "No preview available" ELSE source.text]

MapContext(sources) == [i \in DOMAIN sources |-> ContextEntry(sources[i], i)]

\* `${source.doc_id}-${source.pageno}`
SourceKey(source) == source.doc_id \o "-" \o ToString(source.pageno)

\* a Map.set that keeps the value a key already has
MapSetKeepingOld(values, source) ==
  IF \E i \in DOMAIN values : SourceKey(values[i]) = SourceKey(source)
  THEN values
  ELSE Append(values, source)

\* sourceMap.set(key, source) on a Map kept as the sequence of its values in
\* insertion order: an existing key keeps its place and takes the new value
MapSet(values, source) ==
  IF \E i \in DOMAIN values : SourceKey(values[i]) = SourceKey(source)
  THEN [i \in DOMAIN values |->
          IF SourceKey(values[i]) = SourceKey(source) THEN source ELSE values[i]]
  ELSE Append(values, source)

RECURSIVE MapSetAll(_, _, _)
MapSetAll(values, list, i) ==
  IF i > Len(list) THEN values
  ELSE MapSetAll(MapSet(values, list[i]), list, i + 1)

\* newSources.findIndex(s => s.doc_id === a.doc_id && s.pageno === a.pageno),
\* 1-based, 0 for JavaScript's -1
FindIndex(newSources, a) ==
  LET hits == {i \in DOMAIN newSources :
                 newSources[i].doc_id = a.doc_id /\ newSources[i].pageno = a.pageno}
  IN  IF hits = {} THEN 0 ELSE SetMin(hits)

\* a sort that puts the cited sources in the reverse of their map order
SortCitedReversed(cited, newSources) ==
  [i \in DOMAIN cited |-> cited[Len(cited) + 1 - i]]

\* the reconciler without its sort: cited sources stay in map order
SortCitedSkipped(cited, newSources) == cited

\* citedSources.sort((a, b) => aIndex - bIndex): a stable insertion
RECURSIVE SortCited(_, _)
SortCited(cited, newSources) ==
  IF Len(cited) = 0 THEN <<>>
  ELSE LET front == SortCited(SubSeq(cited, 1, Len(cited) - 1), newSources)
           x     == cited[Len(cited)]
           xi    == FindIndex(newSources, x)
           keep  == SelectSeq(front, LAMBDA y : FindIndex(newSources, y) <= xi)
           after == SelectSeq(front, LAMBDA y : FindIndex(newSources, y) > xi)
       IN  keep \o <<x>> \o after

\* the reconciler without its rank reassignment
ReassignRanksSkipped(rearrangedSources) == rearrangedSources

\* rearrangedSources.map((source, index) => ({...source, rank: index + 1}))
ReassignRanks(rearrangedSources) ==
  [i \in DOMAIN rearrangedSources |-> [rearrangedSources[i] EXCEPT !.rank = i]]

\* a reconciler that returns only the sources cited this turn
mergeAndRearrangeSourcesCitedOnly(newSources, currentSources) ==
  IF Len(newSources) = 0 THEN currentSources
  ELSE LET allSources == MapSetAll(MapSetAll(<<>>, currentSources, 1), newSources, 1)
           newSourceKeys == {SourceKey(newSources[i]) : i \in DOMAIN newSources}
           citedSources == SelectSeq(allSources,
                                     LAMBDA s : SourceKey(s) \in newSourceKeys)
       IN  ReassignRanks(SortCited(citedSources, newSources))

mergeAndRearrangeSources(newSources, currentSources) ==
  IF Len(newSources) = 0 THEN currentSources
  ELSE LET allSources == MapSetAll(MapSetAll(<<>>, currentSources, 1), newSources, 1)
           newSourceKeys == {SourceKey(newSources[i]) : i \in DOMAIN newSources}
           citedSources == SelectSeq(allSources,
                                     LAMBDA s : SourceKey(s) \in newSourceKeys)
           uncitedSources == SelectSeq(allSources,
                                       LAMBDA s : SourceKey(s) \notin newSourceKeys)
       IN  ReassignRanks(SortCited(citedSources, newSources) \o uncitedSources)

\* Stage B: finalCitationMapping[tempNum] = rearrangedIndex + 1
finalCitationMapping(mapping, context, rearrangedSources) ==
  LET Found(tempNum) ==
        {i \in DOMAIN rearrangedSources :
           SourceKey(rearrangedSources[i]) = SourceKey(context[tempNum])}
      mapped == {mapping[o] : o \in {o \in DOMAIN mapping :
                    mapping[o] \in DOMAIN context /\ Found(mapping[o]) # {}}}
  IN  [tempNum \in mapped |-> SetMin(Found(tempNum))]


\* ------------------------------------------------- the backend's events

SrcA  == RawSource(7, "d1", "Alpha", <<1>>)
SrcA2 == RawSource(4, "d1", "Alpha, revised", <<1, 2>>)
SrcB  == RawSource(2, "d2", "Beta", <<>>)

\* The source lists a metadata or done event may carry.
SourceLists == {<<>>, <<SrcA>>, <<SrcB, SrcA2>>}

\* The answers the backend generates, each as the payloads of its content
\* events in order.
Answers == {<< <<"[">>, <<"1", "]">> >>, << <<"[", "2", "]">> >>}

RECURSIVE Concat(_)
Concat(chunks) ==
  IF Len(chunks) = 0 THEN <<>> ELSE chunks[1] \o Concat(Tail(chunks))

\* the answers that begin with the n content events whose payloads add up to text
AnswersFrom(n, text) ==
  {a \in Answers : Len(a) >= n /\ Concat(SubSeq(a, 1, n)) = text}

\* let metadata = {}: an object without keys
NoMetadata == [used_model |-> NoValue]

\* The done events: with or without sources, with or without embedded
\* metadata (the model name, or the model name and a copy of the sources).
DoneEvents ==
  {[sources |-> srcs, metadata |-> [used_model |-> "model"], latency_ms |-> 1] :
     srcs \in SourceLists}
  \cup {[sources |-> <<>>, metadata |-> NoMetadata, latency_ms |-> 1],
        [sources |-> <<>>, metadata |-> [used_model |-> "model", sources |-> <<SrcA>>],
         latency_ms |-> 1]}

\* The one prompt the user types (non-blank).
Prompt == "question"

\* ------------------------------------------------------------- state

VARIABLES
  messages,            \* useState([]): the message list
  accumulatedSources,  \* useState([]): the accumulated registry
  isGenerating,        \* useState(false)
  isWebSearching,      \* useState(false)
  error,               \* useState(null): "" for null
  lastAnswer,          \* useState(null): the id of the last completed message, Null for null
  streamBufferRef,     \* useRef(''): buffer
  displayedTextRef,    \* useRef(''): displayed
  streamIntervalRef,   \* useRef(null): Null, or the botMessageId the live tick closes over
  streams,             \* one askQuestionStream call per turn: its locals and its callbacks' closure
  turnCount,           \* turns started so far (stands for the clock of Date.now())
  mounted,             \* the App component is mounted (its unmount cleanup has not run)
  deliveredKeys,       \* history: keys of the sources of completed turns started without web search
  committed,           \* history: what each marker of a finalized message denoted when committed
  settled,             \* history: the turns whose onComplete or onError has run
  chatStart,           \* history: turnCount at the last New Chat
  textIn, textOut,     \* SpecText: an answer text and what the text pipeline makes of it
  mergeNew, mergeCur, mergeOut,  \* SpecMerge: the reconciler's arguments and result
  remapData, remapRegistry, remapMessage,  \* SpecRemap: finalData, the registry, completedMessage
  remapEvent,          \* SpecFallback: the done event read
  clickContext,        \* SpecClick: the context prop of AnswerText (the accumulated registry)
  lastClickTime,       \* AnswerText useState({}): citation number -> time of its last click
  clock,               \* Date.now() at the last click, in ms since the component was shown
  toastMessage,        \* AnswerText useState(null): <<>> for null
  highlightedSource,   \* App useState(null): Null, or the citation number last notified
  clickLog,            \* history: the numbers of the markers clicked, in order
  notified,            \* history: the arguments of the calls of onCitationClick, in order
  wireEvents,          \* SpecWire: the events the backend writes to the response body
  wirePos,             \* how much of the body the reads so far have returned
  wireText,            \* askQuestionStream's accumulatedText
  wireSources,         \* askQuestionStream's sources: "empty" for [], "list", or NoValue
  wireBuffer,          \* streamBufferRef.current
  wireDone,            \* onComplete has been called
  wireFinal            \* finalData.answer_md of that call

appVars == <<messages, accumulatedSources, isGenerating, isWebSearching, error,
             lastAnswer, streamBufferRef, displayedTextRef, streamIntervalRef,
             streams, turnCount, mounted, deliveredKeys, committed, settled,
             chatStart>>
textVars == <<textIn, textOut>>
mergeVars == <<mergeNew, mergeCur, mergeOut>>
remapVars == <<remapData, remapRegistry, remapMessage, remapEvent>>
clickVars == <<clickContext, lastClickTime, clock, toastMessage, highlightedSource,
               clickLog, notified>>
wireVars == <<wireEvents, wirePos, wireText, wireSources, wireBuffer, wireDone,
              wireFinal>>
pureVars == <<textVars, mergeVars, remapVars, clickVars, wireVars>>
vars == <<appVars, pureVars>>

\* null of an id or of a timer handle (ids are clock readings, hence positive)
Null == 0

Turns == 1 .. MaxTurns

\* the locals of an askQuestionStream call that has not started or has returned
NoStream ==
  [phase |-> "none", terminal |-> FALSE, accumulatedText |-> <<>>, sources |-> <<>>,
   metadata |-> NoMetadata, chunks |-> 0, botMessageId |-> Null,
   capturedSources |-> <<>>, useWebSearch |-> FALSE]

\* a record field that may be absent (JavaScript's undefined)
Field(r, f, default) == IF f \in DOMAIN r THEN r[f] ELSE default

AppInit ==
  /\ messages = <<>>
  /\ accumulatedSources = <<>>
  /\ isGenerating = FALSE
  /\ isWebSearching = FALSE
  /\ error = ""
  /\ lastAnswer = Null
  /\ streamBufferRef = <<>>
  /\ displayedTextRef = <<>>
  /\ streamIntervalRef = Null
  /\ streams = [t \in Turns |-> NoStream]
  /\ turnCount = 0
  /\ mounted = TRUE
  /\ deliveredKeys = {}
  /\ committed = {}
  /\ settled = {}
  /\ chatStart = 0

NoTextOut == [done |-> FALSE, citationsInText |-> <<>>, updatedAnswerText |-> <<>>]

NoFinalData ==
  [answer_md |-> <<>>, sources |-> <<>>, used_model |-> NoValue, latency_ms |-> 0,
   metadata |-> NoMetadata]

NoMessage == [id |-> Null, sender |-> "none"]

\* no done event read yet
NoEvent == [sources |-> <<>>, metadata |-> NoMetadata, latency_ms |-> 0]

TextIdle == textIn = <<>> /\ textOut = NoTextOut
MergeIdle == mergeNew = <<>> /\ mergeCur = <<>> /\ mergeOut = <<>>
RemapIdle ==
  /\ remapData = NoFinalData
  /\ remapRegistry = <<>>
  /\ remapMessage = NoMessage
  /\ remapEvent = NoEvent

\* if (now - lastClick < 200)
DebounceMs == 200

ClickNums == 0 .. MaxCitation

\* no marker clicked yet; Date.now() is far more than 200 ms after time 0,
\* which lastClickTime[citationNum] || 0 stands for
ClickIdle ==
  /\ clickContext = <<>>
  /\ lastClickTime = [n \in ClickNums |-> 0]
  /\ clock = DebounceMs
  /\ toastMessage = <<>>
  /\ highlightedSource = Null
  /\ clickLog = <<>>
  /\ notified = <<>>

\* no response body being read
WireIdle ==
  /\ wireEvents = <<>>
  /\ wirePos = 0
  /\ wireText = <<>>
  /\ wireSources = "empty"
  /\ wireBuffer = <<>>
  /\ wireDone = FALSE
  /\ wireFinal = <<>>

Init == AppInit /\ TextIdle /\ MergeIdle /\ RemapIdle /\ ClickIdle /\ WireIdle


\* ------------------------------------------------------ App: handlers

IsPrefix(a, b) == Len(a) <= Len(b) /\ SubSeq(b, 1, Len(a)) = a

\* Math.ceil(n / 10) for n >= 0
CeilTenth(n) == (n + 9) \div 10

\* prev.map(msg => msg.id === botMessageId ? {...msg, text: newDisplayed} : msg)
SetTextById(list, id, text) ==
  [i \in DOMAIN list |->
     IF list[i].id = id THEN [list[i] EXCEPT !.text = text] ELSE list[i]]

\* prev.map(msg => msg.id === botMessageId ? completedMessage : msg)
ReplaceById(list, id, message) ==
  [i \in DOMAIN list |-> IF list[i].id = id THEN message ELSE list[i]]

\* prev.filter(msg => msg.id !== id)
RemoveById(list, id) == SelectSeq(list, LAMBDA m : m.id # id)

KeysOf(list) == {SourceKey(list[i]) : i \in DOMAIN list}

\* a turn start that appends the user message even when told to skip it
handleSendMessageAlwaysUser(t, useWebSearch, skipUserMessage) ==
  /\ error' = ""
  /\ isWebSearching' = (IF useWebSearch THEN TRUE ELSE isWebSearching)
  /\ messages' = messages \o <<[id |-> 2 * t - 1, text |-> Prompt, sender |-> "user"],
                               [id |-> 2 * t, text |-> <<>>, sender |-> "bot",
                                context |-> <<>>, streaming |-> TRUE]>>
  /\ isGenerating' = TRUE
  /\ streamBufferRef' = <<>>
  /\ displayedTextRef' = <<>>
  /\ streamIntervalRef' = 2 * t
  /\ streams' = [streams EXCEPT ![t] =
                   [NoStream EXCEPT !.phase = "open",
                                    !.botMessageId = 2 * t,
                                    !.capturedSources = accumulatedSources,
                                    !.useWebSearch = useWebSearch]]
  /\ turnCount' = t
  /\ UNCHANGED <<accumulatedSources, lastAnswer, mounted, deliveredKeys, committed,
                 settled, chatStart>>

\* handleSendMessage(message, useWebSearch, skipUserMessage) past its guard
\* (!message.trim() || isGenerating), as turn t: the user message, the
\* placeholder, the buffers, the tick timer and the askQuestionStream call.
handleSendMessage(t, useWebSearch, skipUserMessage) ==
  LET userMessage == [id |-> 2 * t - 1, text |-> Prompt, sender |-> "user"]
      botMessageId == 2 * t
      placeholderBotMessage ==
        [id |-> botMessageId, text |-> <<>>, sender |-> "bot", context |-> <<>>,
         streaming |-> TRUE]
  IN  /\ error' = ""
      /\ isWebSearching' = (IF useWebSearch THEN TRUE ELSE isWebSearching)
      /\ messages' = (IF skipUserMessage THEN messages ELSE Append(messages, userMessage))
                       \o <<placeholderBotMessage>>
      /\ isGenerating' = TRUE
      /\ streamBufferRef' = <<>>
      /\ displayedTextRef' = <<>>
      /\ streamIntervalRef' = botMessageId
      /\ streams' = [streams EXCEPT ![t] =
                       [NoStream EXCEPT !.phase = "open",
                                        !.botMessageId = botMessageId,
                                        !.capturedSources = accumulatedSources,
                                        !.useWebSearch = useWebSearch]]
      /\ turnCount' = t
      /\ UNCHANGED <<accumulatedSources, lastAnswer, mounted, deliveredKeys, committed,
                     settled, chatStart>>

\* handleSubmit / handleKeyPress with a non-blank input: the form is offered
\* whatever the state, both handlers test !isGenerating themselves.
SubmitPrompt ==
  /\ mounted
  /\ turnCount < MaxTurns
  /\ ~isGenerating
  /\ handleSendMessage(turnCount + 1, FALSE, FALSE)
  /\ UNCHANGED <<pureVars>>

\* AnswerText offers 'Search the Web' on the message that is lastAnswer, when
\* it is not streaming and not a web-search answer, unless isWebSearching.
WebSearchOffered ==
  /\ ~isWebSearching
  /\ \E i \in DOMAIN messages :
       /\ messages[i].sender = "bot"
       /\ messages[i].id = lastAnswer
       /\ ~Field(messages[i], "streaming", FALSE)
       /\ ~Field(messages[i], "used_web_search", FALSE)

\* handleWebSearchRetry: replays the last user message with web search
WebSearchRetry ==
  /\ mounted
  /\ turnCount < MaxTurns
  /\ WebSearchOffered
  /\ \E i \in DOMAIN messages : messages[i].sender = "user"
  /\ ~isGenerating
  /\ handleSendMessage(turnCount + 1, TRUE, TRUE)
  /\ UNCHANGED <<pureVars>>

\* a tick without the cap of 5 characters
TickUncapped ==
  /\ mounted
  /\ streamIntervalRef # Null
  /\ LET buffer == streamBufferRef
         displayed == displayedTextRef
         charsToAdd == CeilTenth(Len(buffer) - Len(displayed))
         newDisplayed == SubSeq(buffer, 1, Min(Len(displayed) + charsToAdd, Len(buffer)))
     IN  IF Len(displayed) < Len(buffer)
         THEN /\ displayedTextRef' = newDisplayed
              /\ messages' = SetTextById(messages, streamIntervalRef, newDisplayed)
         ELSE UNCHANGED <<displayedTextRef, messages>>
  /\ UNCHANGED <<accumulatedSources, isGenerating, isWebSearching, error, lastAnswer,
                 streamBufferRef, streamIntervalRef, streams, turnCount, mounted,
                 deliveredKeys, committed, settled, chatStart, pureVars>>

\* the setInterval callback of the turn whose botMessageId the timer closes over
Tick ==
  /\ mounted
  /\ streamIntervalRef # Null
  /\ LET buffer == streamBufferRef
         displayed == displayedTextRef
         charsToAdd == Min(CeilTenth(Len(buffer) - Len(displayed)), 5)
         newDisplayed == SubSeq(buffer, 1, Min(Len(displayed) + charsToAdd, Len(buffer)))
     IN  IF Len(displayed) < Len(buffer)
         THEN /\ displayedTextRef' = newDisplayed
              /\ messages' = SetTextById(messages, streamIntervalRef, newDisplayed)
         ELSE UNCHANGED <<displayedTextRef, messages>>
  /\ UNCHANGED <<accumulatedSources, isGenerating, isWebSearching, error, lastAnswer,
                 streamBufferRef, streamIntervalRef, streams, turnCount, mounted,
                 deliveredKeys, committed, settled, chatStart, pureVars>>

\* finalData.used_web_search: askQuestionStream builds finalData without it
UsedWebSearch(finalData) == Field(finalData, "used_web_search", FALSE)

\* let sources = finalData.sources || [], with the metadata fallback
FinalSources(finalData) ==
  IF Len(finalData.sources) = 0 /\ Field(finalData.metadata, "sources", NoValue) # NoValue
  THEN finalData.metadata.sources
  ELSE finalData.sources

\* rearrangedSources of onComplete
RearrangedSources(finalData, captured) ==
  IF UsedWebSearch(finalData) THEN captured
  ELSE mergeAndRearrangeSources(MapContext(FinalSources(finalData)), captured)

\* finalAnswerText of onComplete: Stage A, then Stage B unless web search
finalAnswerText(finalData, captured) ==
  LET answerText == finalData.answer_md
      context == MapContext(FinalSources(finalData))
      mapping == citationMapping(citationsInText(answerText))
  IN  IF UsedWebSearch(finalData) THEN updatedAnswerText(answerText)
      ELSE RewriteMarkers(updatedAnswerText(answerText),
                          finalCitationMapping(mapping, context,
                                               RearrangedSources(finalData, captured)))

\* completedMessage of onComplete
completedMessage(botMessageId, finalData, captured) ==
  LET context == MapContext(FinalSources(finalData))
      mapping == citationMapping(citationsInText(finalData.answer_md))
      finalMapping ==
        IF UsedWebSearch(finalData) THEN <<>>
        ELSE finalCitationMapping(mapping, context,
                                  RearrangedSources(finalData, captured))
  IN  [id |-> botMessageId,
       text |-> finalAnswerText(finalData, captured),
       sender |-> "bot",
       context |-> context,
       used_model |-> finalData.used_model,
       latency_ms |-> finalData.latency_ms,
       citation_mapping |-> finalMapping,
       streaming |-> FALSE,
       used_web_search |-> UsedWebSearch(finalData)]

\* what the markers of a message committed under `registry` denote
Denotations(msg, registry) ==
  {[id |-> msg.id, rank |-> r, key |-> SourceKey(registry[r])] :
     r \in Range(citationsInText(msg.text)) \cap DOMAIN registry}

\* the onComplete callback of turn t (all but the stream's own locals)
onComplete(t, finalData) ==
  LET botMessageId == streams[t].botMessageId
      captured == streams[t].capturedSources
  IN  \E done \in {completedMessage(botMessageId, finalData, captured)} :
      /\ streamIntervalRef' = Null
      /\ accumulatedSources' =
           (IF UsedWebSearch(finalData) THEN accumulatedSources
            ELSE RearrangedSources(finalData, captured))
      /\ messages' = ReplaceById(messages, botMessageId, done)
      /\ lastAnswer' = botMessageId
      /\ isGenerating' = FALSE
      /\ isWebSearching' = FALSE
      /\ streamBufferRef' = <<>>
      /\ displayedTextRef' = <<>>
      /\ deliveredKeys' =
           (IF streams[t].useWebSearch THEN deliveredKeys
            ELSE deliveredKeys \cup KeysOf(done.context))
      /\ committed' =
           (IF streams[t].useWebSearch
               \/ ~\E i \in DOMAIN messages : messages[i].id = botMessageId
            THEN committed
            ELSE committed \cup Denotations(done, accumulatedSources'))
      /\ settled' = settled \cup {t}
      /\ UNCHANGED <<error, turnCount, mounted, chatStart>>

\* an onError that stops the timer but forgets the two buffers
onErrorKeepingBuffers(t, errorMessage) ==
  /\ streamIntervalRef' = Null
  /\ error' = "Error: " \o errorMessage
  /\ messages' = RemoveById(messages, streams[t].botMessageId)
  /\ isGenerating' = FALSE
  /\ isWebSearching' = FALSE
  /\ committed' = {c \in committed : c.id # streams[t].botMessageId}
  /\ settled' = settled \cup {t}
  /\ UNCHANGED <<accumulatedSources, lastAnswer, turnCount, mounted, deliveredKeys,
                 chatStart, streamBufferRef, displayedTextRef>>

\* the onError callback of turn t (also the catch block of handleSendMessage)
onError(t, errorMessage) ==
  /\ streamIntervalRef' = Null
  /\ error' = "Error: " \o errorMessage
  /\ messages' = RemoveById(messages, streams[t].botMessageId)
  /\ isGenerating' = FALSE
  /\ isWebSearching' = FALSE
  /\ streamBufferRef' = <<>>
  /\ displayedTextRef' = <<>>
  /\ committed' = {c \in committed : c.id # streams[t].botMessageId}
  /\ settled' = settled \cup {t}
  /\ UNCHANGED <<accumulatedSources, lastAnswer, turnCount, mounted, deliveredKeys,
                 chatStart>>

\* a New Chat that forgets to empty the registry
handleNewChatKeepingSources ==
  /\ mounted
  /\ Len(messages) > 0
  /\ ~isGenerating
  /\ messages' = <<>>
  /\ lastAnswer' = Null
  /\ error' = ""
  /\ isGenerating' = FALSE
  /\ isWebSearching' = FALSE
  /\ streamBufferRef' = <<>>
  /\ displayedTextRef' = <<>>
  /\ streamIntervalRef' = Null
  /\ deliveredKeys' = {}
  /\ committed' = {}
  /\ chatStart' = turnCount
  /\ UNCHANGED <<accumulatedSources, streams, turnCount, mounted, settled, pureVars>>

\* handleNewChat; the button is rendered when messages.length > 0 and is
\* disabled while isGenerating
handleNewChat ==
  /\ mounted
  /\ Len(messages) > 0
  /\ ~isGenerating
  /\ messages' = <<>>
  /\ lastAnswer' = Null
  /\ accumulatedSources' = <<>>
  /\ error' = ""
  /\ isGenerating' = FALSE
  /\ isWebSearching' = FALSE
  /\ streamBufferRef' = <<>>
  /\ displayedTextRef' = <<>>
  /\ streamIntervalRef' = Null
  /\ deliveredKeys' = {}
  /\ committed' = {}
  /\ chatStart' = turnCount
  /\ UNCHANGED <<streams, turnCount, mounted, settled, pureVars>>

\* the cleanup of the unmount effect: clearInterval on the live timer and
\* nothing else.  Teardown ends what can be observed of the App: the model
\* takes no step after it.
Unmount ==
  /\ mounted
  /\ mounted' = FALSE
  /\ UNCHANGED <<messages, accumulatedSources, isGenerating, isWebSearching, error,
                 lastAnswer, streamBufferRef, displayedTextRef, streamIntervalRef,
                 streams, turnCount, deliveredKeys, committed, settled, chatStart,
                 pureVars>>


\* ------------------------------------------- askQuestionStream: events
\* One step per event read from the body.  The backend sends at most one
\* metadata event, then the content events of its answer, then one terminal
\* event (done once the answer is complete, or
\* error) and nothing after it; the transport may end the body or fail a read
\* at any moment, also between the terminal event and the end of the body.

Open(t) == mounted /\ streams[t].phase = "open"

Reading(t) == Open(t) /\ ~streams[t].terminal

\* the locals of a call are dead once the terminal event has been handled:
\* only the callbacks' botMessageId is still read (by the catch block's onError)
AfterTerminal(st) ==
  [NoStream EXCEPT !.phase = "open", !.terminal = TRUE,
                   !.botMessageId = st.botMessageId]

\* event.type === 'metadata'
ReadMetadata(t, srcs) ==
  /\ Reading(t)
  /\ streams[t].metadata = NoMetadata
  /\ streams[t].chunks = 0
  /\ streams' = [streams EXCEPT ![t].sources = srcs,
                                ![t].metadata = [used_model |-> "model"]]
  /\ UNCHANGED <<messages, accumulatedSources, isGenerating, isWebSearching, error,
                 lastAnswer, streamBufferRef, displayedTextRef, streamIntervalRef,
                 turnCount, mounted, deliveredKeys, committed, settled, chatStart,
                 pureVars>>

\* a content event whose onChunk also writes the text into the placeholder
ReadContentPublishing(t, chunk) ==
  /\ Reading(t)
  /\ \E a \in AnswersFrom(streams[t].chunks, streams[t].accumulatedText) :
       Len(a) > streams[t].chunks /\ chunk = a[streams[t].chunks + 1]
  /\ streams' = [streams EXCEPT ![t].accumulatedText = @ \o chunk,
                                ![t].chunks = @ + 1]
  /\ streamBufferRef' = streams[t].accumulatedText \o chunk
  /\ messages' = SetTextById(messages, streams[t].botMessageId,
                             streams[t].accumulatedText \o chunk)
  /\ UNCHANGED <<accumulatedSources, isGenerating, isWebSearching, error,
                 lastAnswer, displayedTextRef, streamIntervalRef, turnCount, mounted,
                 deliveredKeys, committed, settled, chatStart, pureVars>>

\* event.type === 'content': accumulatedText += event.chunk, then the onChunk
\* callback: streamBufferRef.current = accumulatedText
ReadContent(t, chunk) ==
  /\ Reading(t)
  /\ \E a \in AnswersFrom(streams[t].chunks, streams[t].accumulatedText) :
       Len(a) > streams[t].chunks /\ chunk = a[streams[t].chunks + 1]
  /\ streams' = [streams EXCEPT ![t].accumulatedText = @ \o chunk,
                                ![t].chunks = @ + 1]
  /\ streamBufferRef' = streams[t].accumulatedText \o chunk
  /\ UNCHANGED <<messages, accumulatedSources, isGenerating, isWebSearching, error,
                 lastAnswer, displayedTextRef, streamIntervalRef, turnCount, mounted,
                 deliveredKeys, committed, settled, chatStart, pureVars>>

\* a done branch that takes no sources from the done event
FinalDataWithoutFallback(st, event) ==
  LET metadata == IF event.metadata # NoMetadata THEN event.metadata ELSE st.metadata
  IN  [answer_md |-> st.accumulatedText,
       sources |-> st.sources,
       used_model |-> IF ~Falsy(metadata.used_model) THEN metadata.used_model
                      ELSE event.metadata.used_model,
       latency_ms |-> event.latency_ms,
       metadata |-> [used_model |-> metadata.used_model]]

\* finalData of the done branch: answer_md, sources, used_model, latency_ms, metadata
FinalData(st, event) ==
  LET sources == IF Len(event.sources) > 0 THEN event.sources ELSE st.sources
      metadata == IF event.metadata # NoMetadata THEN event.metadata ELSE st.metadata
  IN  [answer_md |-> st.accumulatedText,
       sources |-> sources,
       used_model |-> IF ~Falsy(metadata.used_model) THEN metadata.used_model
                      ELSE event.metadata.used_model,
       latency_ms |-> event.latency_ms,
       metadata |-> metadata]

\* event.type === 'done': sent when the answer is complete; the backend names
\* its model in the metadata event or in the metadata of done
ReadDone(t, event) ==
  /\ Reading(t)
  /\ \E a \in AnswersFrom(streams[t].chunks, streams[t].accumulatedText) :
       Len(a) = streams[t].chunks
  /\ event.metadata = NoMetadata => streams[t].metadata # NoMetadata
  /\ onComplete(t, FinalData(streams[t], event))
  /\ streams' = [streams EXCEPT ![t] = AfterTerminal(@)]
  /\ UNCHANGED <<pureVars>>

\* event.type === 'error'
ReadErrorEvent(t) ==
  /\ Reading(t)
  /\ onError(t, "stream error")
  /\ streams' = [streams EXCEPT ![t] = AfterTerminal(@)]
  /\ UNCHANGED <<pureVars>>

\* fetch rejects, the status is not ok, or reader.read() rejects: the catch
\* block calls onError and the call returns
ReadFails(t) ==
  /\ Open(t)
  /\ onError(t, "Backend unavailable or timed out.")
  /\ streams' = [streams EXCEPT ![t] = NoStream]
  /\ UNCHANGED <<pureVars>>

\* reader.read() reports done: the loop breaks and the call returns
EndOfBody(t) ==
  /\ Open(t)
  /\ streams' = [streams EXCEPT ![t] = NoStream]
  /\ UNCHANGED <<messages, accumulatedSources, isGenerating, isWebSearching, error,
                 lastAnswer, streamBufferRef, displayedTextRef, streamIntervalRef,
                 turnCount, mounted, deliveredKeys, committed, settled, chatStart,
                 pureVars>>

Next ==
  \/ SubmitPrompt
  \/ WebSearchRetry
  \/ Tick
  \/ handleNewChat
  \/ Unmount
  \/ \E t \in Turns : \E srcs \in SourceLists : ReadMetadata(t, srcs)
  \/ \E t \in Turns : \E a \in Answers : \E i \in DOMAIN a : ReadContent(t, a[i])
  \/ \E t \in Turns : \E event \in DoneEvents : ReadDone(t, event)
  \/ \E t \in Turns : ReadErrorEvent(t)
  \/ \E t \in Turns : ReadFails(t)
  \/ \E t \in Turns : EndOfBody(t)

Spec == Init /\ [][Next]_vars

\* the response of turn t ends: reader.read() reports done or rejects
StreamEnds(t) == EndOfBody(t) \/ ReadFails(t)

\* SpecFair: no response stays open for ever.  Whatever events it delivers
\* first, the body of every request eventually ends or a read of it fails.
SpecFair == Spec /\ \A t \in Turns : WF_vars(StreamEnds(t))


\* ------------------------------------------ the pure parts on their own

\* SpecText: the Citation Scanner and Stage A applied to every text over
\* TextAlphabet of at most MaxTextLen characters.
TextAlphabet == {"[", "]", "0", "1", "2"}

CharTexts == UNION {[1 .. n -> TextAlphabet] : n \in 0 .. MaxTextLen}

\* and to every text of at most MaxMarkers markers [2] and [5]
MarkerTexts ==
  {Concat(ms) : ms \in UNION {[1 .. n -> {MarkerText(2), MarkerText(5)}] :
                                n \in 0 .. MaxMarkers}}

Texts == CharTexts \cup MarkerTexts

TextInit ==
  AppInit /\ MergeIdle /\ RemapIdle /\ ClickIdle /\ WireIdle /\ textIn \in Texts /\ textOut = NoTextOut

ScanText ==
  /\ ~textOut.done
  /\ textOut' = [done |-> TRUE,
                 citationsInText |-> citationsInText(textIn),
                 updatedAnswerText |-> updatedAnswerText(textIn)]
  /\ UNCHANGED <<appVars, textIn, mergeVars, remapVars, clickVars, wireVars>>

TextNext == ScanText

SpecText == TextInit /\ [][TextNext]_vars

\* SpecMerge: the Source Merge-Reconciler applied turn after turn, from the
\* empty registry, to every source list of at most MaxSources sources.
SrcC == RawSource(3, "d3", "Gamma", <<4, 5>>)

MergeSources == {SrcA, SrcA2, SrcB, SrcC}

MergeLists == UNION {[1 .. n -> MergeSources] : n \in 0 .. MaxSources}

MergeInit == AppInit /\ TextIdle /\ RemapIdle /\ ClickIdle /\ WireIdle /\ MergeIdle

MergeStep(list) ==
  /\ mergeNew' = MapContext(list)
  /\ mergeCur' = mergeOut
  /\ mergeOut' = mergeAndRearrangeSources(MapContext(list), mergeOut)
  /\ UNCHANGED <<appVars, textVars, remapVars, clickVars, wireVars>>

MergeNext == \E list \in MergeLists : MergeStep(list)

SpecMerge == MergeInit /\ [][MergeNext]_vars

\* SpecRemap: the done-time pipeline of onComplete (scanner, reconciler, both
\* rewrites) applied to answers of at most MaxTokens tokens, on the registries
\* that earlier turns with the sources of RemapEarlier leave behind.
RemapTokens == {<<"a">>, MarkerText(1), MarkerText(2), MarkerText(7)}

RemapAnswers ==
  {Concat(ts) : ts \in UNION {[1 .. n -> RemapTokens] : n \in 0 .. MaxTokens}}

RemapLists == UNION {[1 .. n -> {SrcA, SrcA2, SrcB}] : n \in 0 .. 2}

RemapEarlier == {<<>>, <<SrcB>>, <<SrcA, SrcB>>}

RemapInit ==
  /\ AppInit /\ TextIdle /\ MergeIdle /\ ClickIdle /\ WireIdle
  /\ remapData = NoFinalData
  /\ remapMessage = NoMessage
  /\ remapEvent = NoEvent
  /\ remapRegistry \in {mergeAndRearrangeSources(MapContext(srcs), <<>>) :
                          srcs \in RemapEarlier}

FinalizeTurn(answer, srcs) ==
  LET finalData == [answer_md |-> answer, sources |-> srcs, used_model |-> "model",
                    latency_ms |-> 1, metadata |-> [used_model |-> "model"]]
  IN  /\ remapMessage = NoMessage
      /\ remapData' = finalData
      /\ remapMessage' = completedMessage(1, finalData, remapRegistry)
      /\ remapRegistry' = RearrangedSources(finalData, remapRegistry)
      /\ UNCHANGED <<appVars, textVars, mergeVars, clickVars, wireVars, remapEvent>>

RemapNext == \E answer \in RemapAnswers : \E srcs \in RemapLists : FinalizeTurn(answer, srcs)

SpecRemap == RemapInit /\ [][RemapNext]_vars

\* SpecClick: clicks on the citation markers of a rendered answer, at most
\* MaxClicks of them, with numbers up to MaxCitation, against the registries
\* that the sources of RemapEarlier leave behind.

\* setToastMessage(`Source [${citationNum}] not found.`)
Notice(citationNum) == <<"Source ">> \o MarkerText(citationNum) \o <<" not found.">>

ClickInit ==
  /\ AppInit /\ TextIdle /\ MergeIdle /\ RemapIdle /\ WireIdle
  /\ clickContext \in {mergeAndRearrangeSources(MapContext(srcs), <<>>) :
                         srcs \in RemapEarlier}
  /\ lastClickTime = [n \in ClickNums |-> 0]
  /\ clock = DebounceMs
  /\ toastMessage = <<>>
  /\ highlightedSource = Null
  /\ clickLog = <<>>
  /\ notified = <<>>

\* App.handleCitationClick, the onCitationClick prop of AnswerText
onCitationClick(citationNum) ==
  /\ highlightedSource' = citationNum
  /\ notified' = Append(notified, citationNum)

\* a click handler that skips the range check
ClickUnchecked(citationNum, elapsed) ==
  LET now == clock + elapsed
  IN  /\ Len(clickLog) < MaxClicks
      /\ clock' = now
      /\ clickLog' = Append(clickLog, citationNum)
      /\ IF now - lastClickTime[citationNum] < DebounceMs
         THEN UNCHANGED <<lastClickTime, toastMessage, highlightedSource, notified>>
         ELSE /\ lastClickTime' = [lastClickTime EXCEPT ![citationNum] = now]
              /\ onCitationClick(citationNum)
              /\ UNCHANGED toastMessage
      /\ UNCHANGED <<appVars, textVars, mergeVars, remapVars, wireVars, clickContext>>

\* AnswerText.handleCitationClick(citationNum), `elapsed` ms after the click
\* before it
Click(citationNum, elapsed) ==
  LET now == clock + elapsed
      lastClick == lastClickTime[citationNum]
  IN  /\ Len(clickLog) < MaxClicks
      /\ clock' = now
      /\ clickLog' = Append(clickLog, citationNum)
      /\ IF now - lastClick < DebounceMs
         THEN UNCHANGED <<lastClickTime, toastMessage, highlightedSource, notified>>
         ELSE /\ lastClickTime' = [lastClickTime EXCEPT ![citationNum] = now]
              /\ IF citationNum < 1 \/ citationNum > Len(clickContext)
                 THEN /\ toastMessage' = Notice(citationNum)
                      /\ UNCHANGED <<highlightedSource, notified>>
                 ELSE /\ onCitationClick(citationNum)
                      /\ UNCHANGED toastMessage
      /\ UNCHANGED <<appVars, textVars, mergeVars, remapVars, wireVars, clickContext>>

\* setTimeout(() => setToastMessage(null), 3000)
ToastExpires ==
  /\ toastMessage # <<>>
  /\ toastMessage' = <<>>
  /\ UNCHANGED <<appVars, textVars, mergeVars, remapVars, wireVars, clickContext, lastClickTime,
                 clock, highlightedSource, clickLog, notified>>

\* setTimeout(() => setHighlightedSource(null), 100)
HighlightCleared ==
  /\ highlightedSource # Null
  /\ highlightedSource' = Null
  /\ UNCHANGED <<appVars, textVars, mergeVars, remapVars, wireVars, clickContext, lastClickTime,
                 clock, toastMessage, clickLog, notified>>

ClickNext ==
  \/ \E n \in ClickNums : \E elapsed \in {100, 300} : Click(n, elapsed)
  \/ ToastExpires
  \/ HighlightCleared

SpecClick == ClickInit /\ [][ClickNext]_vars

\* SpecFallback: the done branch and onComplete of a turn that received no
\* metadata event, for every answer of SpecRemap and every done event that
\* names its model.

FallbackInit == RemapInit

DoneWithoutMetadata(answer, event) ==
  LET st == [NoStream EXCEPT !.phase = "open", !.accumulatedText = answer]
      finalData == FinalData(st, event)
  IN  /\ remapMessage = NoMessage
      /\ event.metadata # NoMetadata
      /\ remapEvent' = event
      /\ remapData' = finalData
      /\ remapMessage' = completedMessage(1, finalData, remapRegistry)
      /\ remapRegistry' = RearrangedSources(finalData, remapRegistry)
      /\ UNCHANGED <<appVars, textVars, mergeVars, clickVars, wireVars>>

FallbackNext ==
  \E answer \in RemapAnswers : \E event \in DoneEvents : DoneWithoutMetadata(answer, event)

SpecFallback == FallbackInit /\ [][FallbackNext]_vars


\* SpecTick: the display of one turn whose answer arrives in bursts of very
\* different sizes, up to MaxBacklog characters in all.

\* the sizes of the payloads of the content events
BurstSizes == {1, 7, 30}

\* the state after handleSendMessage("question") on the initial state
TickInit ==
  /\ messages = <<[id |-> 1, text |-> Prompt, sender |-> "user"],
                  [id |-> 2, text |-> <<>>, sender |-> "bot", context |-> <<>>,
                   streaming |-> TRUE]>>
  /\ accumulatedSources = <<>>
  /\ isGenerating = TRUE
  /\ isWebSearching = FALSE
  /\ error = ""
  /\ lastAnswer = Null
  /\ streamBufferRef = <<>>
  /\ displayedTextRef = <<>>
  /\ streamIntervalRef = 2
  /\ streams = [t \in Turns |->
                  IF t = 1 THEN [NoStream EXCEPT !.phase = "open", !.botMessageId = 2]
                  ELSE NoStream]
  /\ turnCount = 1
  /\ mounted = TRUE
  /\ deliveredKeys = {}
  /\ committed = {}
  /\ settled = {}
  /\ chatStart = 0
  /\ TextIdle /\ MergeIdle /\ RemapIdle /\ ClickIdle /\ WireIdle

\* a content event of turn 1 with a payload of n characters: accumulatedText
\* += event.chunk, then onChunk
Burst(n) ==
  LET chunk == [i \in 1 .. n |-> "x"]
  IN  /\ Reading(1)
      /\ Len(streams[1].accumulatedText) + n <= MaxBacklog
      /\ streams' = [streams EXCEPT ![1].accumulatedText = @ \o chunk,
                                    ![1].chunks = @ + 1]
      /\ streamBufferRef' = streams[1].accumulatedText \o chunk
      /\ UNCHANGED <<messages, accumulatedSources, isGenerating, isWebSearching, error,
                     lastAnswer, displayedTextRef, streamIntervalRef, turnCount, mounted,
                     deliveredKeys, committed, settled, chatStart, pureVars>>

TickNext == Tick \/ \E n \in BurstSizes : Burst(n)

SpecTick == TickInit /\ [][TickNext]_vars


\* SpecWire: the read loop of askQuestionStream on the bytes of a response of
\* at most MaxContentEvents content events and a done event, cut into reads
\* in every possible way.  A body is a sequence of symbols: the two halves of
\* the 'data: ' prefix, the braces of the JSON object, the event type, the
\* characters of the chunk, and the newline.

\* the chunk payloads of the content events
WireChunks == {<<"a">>, <<"b", "c">>}

ContentEvent(chunk) == [type |-> "content", chunk |-> chunk]

DoneEvent == [type |-> "done", chunk |-> <<>>]

\* a metadata event, with its sources field or (malformed) without it; the
\* symbol "sources" in the body of an event stands for a non-empty sources
\* field
MetadataEvent(withSources) ==
  [type |-> "metadata", chunk |-> IF withSources THEN <<"sources">> ELSE <<>>]

\* a done event that embeds the sources
DoneEventWithSources == [type |-> "done", chunk |-> <<"sources">>]

\* a content event whose JSON text is cut short (malformed)
TruncatedEvent == [type |-> "truncated", chunk |-> <<"a">>]

\* the backend writes each event as  data: {json}  followed by an empty line
EncodeEvent(event) ==
  IF event.type = "truncated"
  THEN <<"data", ": ", "{", "content">> \o event.chunk \o <<"\n", "\n">>
  ELSE <<"data", ": ", "{", event.type>> \o event.chunk \o <<"}", "\n", "\n">>

RECURSIVE EncodeBody(_)
EncodeBody(events) ==
  IF Len(events) = 0 THEN <<>>
  ELSE EncodeEvent(events[1]) \o EncodeBody(Tail(events))

\* chunk.split('\n')
RECURSIVE SplitLines(_, _)
SplitLines(chunk, line) ==
  IF Len(chunk) = 0 THEN <<line>>
  ELSE IF chunk[1] = "\n" THEN <<line>> \o SplitLines(Tail(chunk), <<>>)
  ELSE SplitLines(Tail(chunk), Append(line, chunk[1]))

\* !line.trim() || !line.startsWith('data: ')
Skipped(line) ==
  Len(line) = 0 \/ ~(Len(line) >= 2 /\ line[1] = "data" /\ line[2] = ": ")

\* JSON.parse(line.substring(6)): an event when the text is one whole object,
\* [type |-> "none"] when it throws (caught and logged, the line is dropped)
JsonParse(jsonStr) ==
  IF /\ Len(jsonStr) >= 3
     /\ jsonStr[1] = "{"
     /\ jsonStr[Len(jsonStr)] = "}"
     /\ jsonStr[2] \in {"metadata", "content", "done"}
     /\ \A i \in 3 .. (Len(jsonStr) - 1) :
          jsonStr[i] \notin {"{", "}", "data", ": ", "metadata", "content", "done"}
  THEN [type |-> jsonStr[2], chunk |-> SubSeq(jsonStr, 3, Len(jsonStr) - 1)]
  ELSE [type |-> "none", chunk |-> <<>>]

\* for (const line of lines): the locals and the effects of the callbacks
\* after the lines of one read
RECURSIVE ProcessLines(_, _)
ProcessLines(lines, st) ==
  IF Len(lines) = 0 THEN st
  ELSE LET line == lines[1]
           event == IF Skipped(line) THEN [type |-> "none", chunk |-> <<>>]
                    ELSE JsonParse(SubSeq(line, 3, Len(line)))
           hasSources == "sources" \in Range(event.chunk)
           \* sources = event.sources, before sources.length throws if it
           \* is undefined (caught by the try around the line)
           afterMetadata ==
             [st EXCEPT !.sources = IF hasSources THEN "list" ELSE NoValue]
           \* if (event.sources && event.sources.length > 0) sources = event.sources
           doneSources == IF hasSources THEN "list" ELSE st.sources
           next ==
             IF event.type = "metadata" THEN afterMetadata
             ELSE IF event.type = "content"
             THEN [st EXCEPT !.text = st.text \o event.chunk,
                             !.buffer = st.text \o event.chunk]
             ELSE IF event.type = "done"
             THEN \* sources.length throws before onComplete if sources is undefined
                  IF doneSources = NoValue THEN st
                  ELSE [st EXCEPT !.sources = doneSources, !.done = TRUE,
                                  !.final = st.text, !.buffer = <<>>]
             ELSE st
       IN  ProcessLines(Tail(lines), next)

\* the responses of a backend that follows the protocol: content events, then
\* one done event
WireBodies ==
  UNION {{Append([i \in 1 .. n |-> ContentEvent(cs[i])], DoneEvent) :
            cs \in [1 .. n -> WireChunks]} : n \in 1 .. MaxContentEvents}

WireInit ==
  /\ AppInit /\ TextIdle /\ MergeIdle /\ RemapIdle /\ ClickIdle
  /\ wireEvents \in WireBodies
  /\ wirePos = 0
  /\ wireText = <<>>
  /\ wireSources = "empty"
  /\ wireBuffer = <<>>
  /\ wireDone = FALSE
  /\ wireFinal = <<>>

\* one reader.read() that returns the next n symbols of the body, and the
\* for loop over its lines
ReadBytes(n) ==
  LET body == EncodeBody(wireEvents)
      chunk == SubSeq(body, wirePos + 1, wirePos + n)
      st == ProcessLines(SplitLines(chunk, <<>>),
                         [text |-> wireText, sources |-> wireSources,
                          buffer |-> wireBuffer, done |-> wireDone,
                          final |-> wireFinal])
  IN  /\ wirePos + n <= Len(body)
      /\ wirePos' = wirePos + n
      /\ wireText' = st.text
      /\ wireSources' = st.sources
      /\ wireBuffer' = st.buffer
      /\ wireDone' = st.done
      /\ wireFinal' = st.final
      /\ UNCHANGED <<appVars, textVars, mergeVars, remapVars, clickVars, wireEvents>>

WireNext == \E n \in 1 .. Len(EncodeBody(wireEvents)) : ReadBytes(n)

SpecWire == WireInit /\ [][WireNext]_vars

\* SpecLines: the same read loop on responses that contain malformed events,
\* every read returning whole lines.

\* the events before done: well-formed ones, a metadata event without its
\* sources field and a line whose JSON text is cut short
LineEvents ==
  {MetadataEvent(TRUE), MetadataEvent(FALSE), ContentEvent(<<"a">>), TruncatedEvent}

LineBodies ==
  UNION {{Append(es, d) : es \in [1 .. n -> LineEvents],
                          d \in {DoneEvent, DoneEventWithSources}} :
           n \in 0 .. MaxLineEvents}

LinesInit ==
  /\ AppInit /\ TextIdle /\ MergeIdle /\ RemapIdle /\ ClickIdle
  /\ wireEvents \in LineBodies
  /\ wirePos = 0
  /\ wireText = <<>>
  /\ wireSources = "empty"
  /\ wireBuffer = <<>>
  /\ wireDone = FALSE
  /\ wireFinal = <<>>

\* one reader.read() that returns the lines of the next k events
ReadLines(k) ==
  \E i \in DOMAIN wireEvents :
    /\ wirePos = Len(EncodeBody(SubSeq(wireEvents, 1, i - 1)))
    /\ i + k - 1 <= Len(wireEvents)
    /\ ReadBytes(Len(EncodeBody(SubSeq(wireEvents, i, i + k - 1))))

LinesNext == \E k \in 1 .. 2 : ReadLines(k)

SpecLines == LinesInit /\ [][LinesNext]_vars


\* ================================================================ claims

KeySeq(list) == [i \in DOMAIN list |-> SourceKey(list[i])]

\* position of n in the duplicate-free sequence cits
IndexOf(cits, n) == CHOOSE i \in DOMAIN cits : cits[i] = n

\* a done event of turn t is being handled in this step
DoneStep(t, event) == ReadDone(t, event)

\* C1: every marker [r] of a finalized message of a turn started without web
\* search, which denoted the registry entry with key K when the message was
\* committed, still denotes an entry with key K (until New Chat).
C1_MarkersStayStable ==
  \A c \in committed :
    /\ c.rank \in DOMAIN accumulatedSources
    /\ SourceKey(accumulatedSources[c.rank]) = c.key

\* C2: when a turn started with useWebSearch = true handles its done event
\* and that event carries a non-empty source list, the accumulated registry
\* is left exactly as it was.
C2_WebSearchExclusion ==
  [][\A t \in Turns : \A event \in DoneEvents :
       (streams[t].useWebSearch /\ Len(event.sources) > 0 /\ DoneStep(t, event))
         => accumulatedSources' = accumulatedSources]_vars

\* C3: after Stage A every marker that carried the j-th distinct citation
\* number (by first appearance) carries j.
C3_StageACompaction ==
  textOut.done =>
    LET before == MarkerNums(textIn)
        after == MarkerNums(textOut.updatedAnswerText)
    IN  /\ Len(after) = Len(before)
        /\ \A i \in DOMAIN before :
             after[i] = IndexOf(textOut.citationsInText, before[i])

\* C4: in a turn without web search with k distinct citation numbers and at
\* least k sources, every marker whose number is the j-th distinct citation is
\* shown in the finalized text as [r], r the position in the reconciled
\* registry of the key of the turn's j-th source.
C4_TwoStageRemap ==
  remapMessage.sender = "bot" =>
    LET raw == MarkerNums(remapData.answer_md)
        cits == citationsInText(remapData.answer_md)
        shown == MarkerNums(remapMessage.text)
        RankOf(key) == CHOOSE r \in DOMAIN remapRegistry :
                         SourceKey(remapRegistry[r]) = key
    IN  Len(cits) <= Len(remapMessage.context) =>
          /\ Len(shown) = Len(raw)
          /\ \A i \in DOMAIN raw :
               shown[i] = RankOf(SourceKey(remapMessage.context[IndexOf(cits, raw[i])]))

\* C5: the accumulated registry entry at position i (1-based) has rank i.
C5_RankContiguity ==
  \A i \in DOMAIN accumulatedSources : accumulatedSources[i].rank = i

\* C5 witness: a registry of two entries left by two merges, the second of
\* which moved the entry of d2 from rank 1 to rank 2.
C5_Witness ==
  /\ Len(accumulatedSources) = 2
  /\ accumulatedSources[1].title = "Alpha"
  /\ accumulatedSources[2].doc_id = "d2"

\* C6: no two registry entries share a key, and after the completion of a turn
\* started without web search the registry has as many entries as there are
\* distinct keys among the sources of such turns since the last New Chat.
C6_KeyUniquenessAndSize ==
  [][/\ \A i, j \in DOMAIN accumulatedSources' :
          SourceKey(accumulatedSources'[i]) = SourceKey(accumulatedSources'[j]) => i = j
     /\ \A t \in Turns : \A event \in DoneEvents :
          (~streams[t].useWebSearch /\ DoneStep(t, event))
            => Len(accumulatedSources') = Cardinality(deliveredKeys')]_vars

\* the distinct elements of a sequence, each at its first occurrence
RECURSIVE FirstOccurrences(_)
FirstOccurrences(seq) ==
  IF Len(seq) = 0 THEN <<>>
  ELSE LET front == FirstOccurrences(SubSeq(seq, 1, Len(seq) - 1))
       IN  IF seq[Len(seq)] \in Range(front) THEN front
           ELSE Append(front, seq[Len(seq)])

\* C7: merging a non-empty newSources puts first one entry per distinct key of
\* newSources, in the order of each key's first occurrence there, then the
\* other entries of the registry in their old order; ranks are 1..n in order.
C7_CitedFirstOrdering ==
  Len(mergeNew) > 0 =>
    /\ KeySeq(mergeOut) =
         FirstOccurrences(KeySeq(mergeNew))
           \o SelectSeq(KeySeq(mergeCur), LAMBDA k : k \notin Range(KeySeq(mergeNew)))
    /\ \A i \in DOMAIN mergeOut : mergeOut[i].rank = i

\* C7 witness: the registry [d1, d2, d3] merged with a turn citing d3 and then
\* d1 (the spec's [A,B,C] + [C,D] with a re-cited second source).
C7_Witness ==
  /\ KeySeq(mergeCur) = <<"d1-1", "d2-1", "d3-4">>
  /\ KeySeq(mergeNew) = <<"d3-4", "d1-1">>
  /\ KeySeq(mergeOut) = <<"d3-4", "d1-1", "d2-1">>

\* C8: a turn without web search whose source list is empty (nothing to
\* merge) leaves the accumulated registry unchanged.
C8_EmptySourceIdempotence ==
  [][\A t \in Turns : \A event \in DoneEvents :
       (/\ ~streams[t].useWebSearch
        /\ Len(FinalSources(FinalData(streams[t], event))) = 0
        /\ DoneStep(t, event))
         => accumulatedSources' = accumulatedSources]_vars

\* the indices at which a marker '[' digits ']' starts
MarkerStarts(text) ==
  {i \in DOMAIN text :
     /\ text[i] = "["
     /\ \E j \in DOMAIN text :
          /\ j > i + 1
          /\ text[j] = "]"
          /\ \A k \in (i + 1) .. (j - 1) : IsDigit(text[k])}

\* the numeric payload of the marker that starts at i
PayloadAt(text, i) ==
  LET j == SetMin({j \in DOMAIN text : j > i /\ text[j] = "]"})
  IN  parseInt(SubSeq(text, i + 1, j - 1))

\* C9: the scanned list holds the numeric payload of every marker exactly
\* once, ordered by the position of its first occurrence, and is empty when
\* the text has no marker.
C9_CitationScanner ==
  textOut.done =>
    LET cits == textOut.citationsInText
        First(n) == SetMin({i \in MarkerStarts(textIn) : PayloadAt(textIn, i) = n})
    IN  /\ Range(cits) = {PayloadAt(textIn, i) : i \in MarkerStarts(textIn)}
        /\ \A a, b \in DOMAIN cits : cits[a] = cits[b] => a = b
        /\ \A a, b \in DOMAIN cits : a < b => First(cits[a]) < First(cits[b])

\* C9 witness: the spec's [2] [5] [2] [5] [5], scanned.
C9_Witness ==
  /\ textOut.done
  /\ textIn = Concat(<<MarkerText(2), MarkerText(5), MarkerText(2), MarkerText(5),
                       MarkerText(5)>>)

\* C10: displayed is a prefix of buffer in every state, and every tick leaves
\* the old displayed a prefix of the new one.
C10_MonotonicPrefix ==
  [][/\ IsPrefix(displayedTextRef', streamBufferRef')
     /\ Tick => IsPrefix(displayedTextRef, displayedTextRef')]_vars


\* the turn whose placeholder has id botMessageId
TurnOf(botMessageId) == botMessageId \div 2

\* this step settles a turn: its onComplete or onError runs for the first time
SettleStep == settled' # settled

\* this step is a New Chat (no two New Chats without a turn started in between)
NewChatStep == chatStart' # chatStart

\* this step is the teardown
UnmountStep == mounted /\ ~mounted'

\* the tick timer is live: it may execute
TimerLive == mounted /\ streamIntervalRef # Null

\* a live timer belongs to a turn that has not settled and that started after
\* the last New Chat
LiveTimerIsCurrent ==
  TimerLive => /\ TurnOf(streamIntervalRef) \notin settled
               /\ TurnOf(streamIntervalRef) > chatStart

\* C11 (as stated): once a turn's done, error, New Chat or the component's
\* teardown has been processed, the tick of that turn never executes again,
\* and buffer and displayed are both empty.
C11_SchedulerStopsAndClears ==
  [][/\ LiveTimerIsCurrent'
     /\ Tick => TimerLive
     /\ (SettleStep \/ NewChatStep \/ UnmountStep)
          => (streamBufferRef' = <<>> /\ displayedTextRef' = <<>>)]_vars

\* C11 (amended): once a turn's done, error, New Chat or the component's
\* teardown has been processed, the tick of that turn never executes again;
\* after done, error and New Chat no timer is left and buffer and displayed
\* are both empty (teardown leaves the two buffers as they are).
C11_SchedulerStops ==
  [][/\ LiveTimerIsCurrent'
     /\ Tick => TimerLive
     /\ (SettleStep \/ NewChatStep)
          => (/\ streamIntervalRef' = Null
              /\ streamBufferRef' = <<>>
              /\ displayedTextRef' = <<>>)]_vars

\* C11 witness: torn down in the middle of a turn, after ticks have shown
\* part of the text
C11_Witness ==
  ~mounted /\ Len(displayedTextRef) > 0 /\ streamIntervalRef # Null


\* C12: when the stream of a turn in flight cannot be opened or fails a read,
\* ends its body before any terminal event, or delivers an error event, then
\* afterwards the error banner is set, the turn's placeholder is not in the
\* message list, the registry is what it was when the turn started, and
\* isGenerating is false.
C12_TransportFailureHandling ==
  [][\A t \in Turns :
       (Reading(t) /\ (ReadErrorEvent(t) \/ ReadFails(t) \/ EndOfBody(t)))
         => (/\ error' # ""
             /\ \A i \in DOMAIN messages' : messages'[i].id # streams[t].botMessageId
             /\ accumulatedSources' = streams[t].capturedSources
             /\ ~isGenerating')]_vars


\* C13: every started turn eventually settles (its onComplete or onError
\* runs, which sets isGenerating to false), however its stream ends, as long
\* as the component is not torn down.
C13_EveryTurnSettles ==
  \A t \in Turns : (turnCount >= t) ~> (t \in settled \/ ~mounted)


\* the turns in flight: started, and neither done nor error processed yet
InFlight == {t \in 1 .. turnCount : t \notin settled}

\* C14: while a turn is in flight no other turn is started (no message
\* appended, no stream opened, buffers and timer untouched by a start), and
\* at most one event stream is active at any time.
C14_SingleInFlightTurn ==
  [][/\ InFlight # {} => turnCount' = turnCount
     /\ Cardinality({t \in Turns : streams'[t].phase = "open"
                                     /\ ~streams'[t].terminal}) <= 1]_vars


\* this step is a click on a marker, and its number
ClickStep == clickLog' # clickLog

Clicked == clickLog'[Len(clickLog')]

\* the click comes less than 200 ms after the last click on the same number
Debounced == clock' - lastClickTime[Clicked] < DebounceMs

\* what a click with number n does when it is handled
ClickOutcome(n) ==
  IF n < 1 \/ n > Len(clickContext)
  THEN /\ toastMessage' = Notice(n)
       /\ notified' = notified
       /\ highlightedSource' = highlightedSource
       /\ UNCHANGED <<messages, accumulatedSources, clickContext>>
  ELSE notified' = Append(notified, n)

\* C15 (as stated): a click on a marker whose number is < 1 or greater than
\* the registry length only shows the notice: onCitationClick is not called
\* and messages, registry and highlightedSource are unchanged; a click with a
\* number in [1, len] notifies the parent with exactly that number.
C15_CitationClick ==
  [][ClickStep => ClickOutcome(Clicked)]_vars

\* C15 (amended): the same for every click that is not within 200 ms of the
\* last handled click on the same number; a click within 200 ms is dropped:
\* no notice, no notification, nothing changes.
C15_CitationClickDebounced ==
  [][ClickStep =>
       IF Debounced
       THEN UNCHANGED <<toastMessage, notified, highlightedSource, lastClickTime,
                        messages, accumulatedSources, clickContext>>
       ELSE ClickOutcome(Clicked)]_vars

\* C15 witness: a valid click was notified, an invalid one raised the notice,
\* and a third click was dropped
C15_Witness ==
  /\ Len(clickLog) = 3
  /\ Len(notified) = 1
  /\ toastMessage # <<>>
  /\ Cardinality({n \in ClickNums : lastClickTime[n] # 0}) = 2


\* C16: immediately after New Chat the message list and the registry are
\* empty, lastAnswer and error are cleared, isGenerating is false, buffer and
\* displayed are empty and no tick timer is active.
C16_NewChatResets ==
  [][NewChatStep =>
       (/\ messages' = <<>>
        /\ accumulatedSources' = <<>>
        /\ lastAnswer' = Null
        /\ error' = ""
        /\ ~isGenerating'
        /\ streamBufferRef' = <<>>
        /\ displayedTextRef' = <<>>
        /\ streamIntervalRef' = Null)]_vars

\* C16 witness: just after a New Chat that followed two turns, the earlier of
\* which left an entry in the registry that the later one captured
C16_Witness ==
  /\ chatStart = turnCount
  /\ turnCount = 2
  /\ messages = <<>>
  /\ streams[2].phase = "open"
  /\ Len(streams[2].capturedSources) > 0

\* this step starts a turn, and the turn it starts
StartStep == turnCount' # turnCount

\* C17: starting a turn appends one user message with the prompt and then one
\* placeholder bot message with empty text and streaming = true; the
\* web-search retry appends the placeholder only; the messages already there
\* and the registry are unchanged.
C17_TurnStart ==
  [][StartStep =>
       LET t == turnCount'
           n == Len(messages)
           IsPlaceholder(m) ==
             m.sender = "bot" /\ m.text = <<>> /\ m.streaming /\ m.id = 2 * t
       IN  /\ accumulatedSources' = accumulatedSources
           /\ Len(messages') >= n
           /\ SubSeq(messages', 1, n) = messages
           /\ IF streams'[t].useWebSearch
              THEN /\ Len(messages') = n + 1
                   /\ IsPlaceholder(messages'[n + 1])
              ELSE /\ Len(messages') = n + 2
                   /\ messages'[n + 1].sender = "user"
                   /\ messages'[n + 1].text = Prompt
                   /\ IsPlaceholder(messages'[n + 2])]_vars

\* C17 witness: a web-search retry has just been started after one completed
\* turn: one user message, the completed answer, the placeholder
C17_Witness ==
  /\ turnCount = 2
  /\ streams[2].useWebSearch
  /\ streams[2].phase = "open"
  /\ Len(messages) = 3
  /\ messages[1].sender = "user"
  /\ messages[2].sender = "bot" /\ ~messages[2].streaming
  /\ messages[3].sender = "bot" /\ messages[3].streaming

\* C18: a bot message committed with streaming = false stays in the list,
\* identical in every field, through every later step except New Chat.
C18_FinalizedImmutable ==
  [][NewChatStep \/
     \A i \in DOMAIN messages :
       (messages[i].sender = "bot" /\ ~messages[i].streaming)
         => \E j \in DOMAIN messages' : messages'[j] = messages[i]]_vars

\* the stream of turn t was opened before a New Chat or before the start of
\* a newer turn
Stale(t) == t <= turnCount /\ (t < turnCount \/ t <= chatStart)

\* C19: an event of a stale stream changes neither buffer nor displayed, nor
\* the message list, nor the registry.
C19_StaleTurnIsolation ==
  [][\A t \in Turns :
       (Stale(t) /\ streams'[t] # streams[t])
         => UNCHANGED <<streamBufferRef, displayedTextRef, messages,
                        accumulatedSources>>]_vars


\* where the line of the i-th event of the body ends (its closing brace)
EventEnd(i) == Len(EncodeBody(SubSeq(wireEvents, 1, i))) - 2

\* the chunks of the content events among the first n events, concatenated
RECURSIVE ChunksOf(_)
ChunksOf(events) ==
  IF Len(events) = 0 THEN <<>>
  ELSE events[1].chunk \o ChunksOf(Tail(events))

\* the events whose bytes have all been read
EventsRead == SubSeq(wireEvents, 1,
                     Cardinality({i \in DOMAIN wireEvents : EventEnd(i) <= wirePos}))

\* C20: until done is handled the buffer is the concatenation, in emission
\* order, of the chunks of the content events read so far, however the
\* transport cuts the bytes into reads; and the text handed to onComplete is
\* the concatenation of all content chunks.
C20_ChunkOrdering ==
  /\ ~wireDone => wireBuffer = ChunksOf(EventsRead)
  /\ wireDone => wireFinal = ChunksOf(wireEvents)


\* the text of the message with the given id
TextOf(id) == {messages[i].text : i \in {j \in DOMAIN messages : messages[j].id = id}}

PositionOf(list, k) ==
  LET hits == {i \in DOMAIN list : SourceKey(list[i]) = k}
  IN  IF hits = {} THEN 0 ELSE SetMin(hits)

\* the keys of the registry before the merge that this turn does not cite
UncitedKeys == KeysOf(mergeCur) \ KeysOf(mergeNew)

\* C22: after a merge of a non-empty newSources, every entry of the old
\* registry whose key newSources does not contain is in the merged registry,
\* below every entry cited this turn, and two such entries stand in the order
\* they had; no key of the old registry is missing from the merged one.
C22_UncitedStability ==
  Len(mergeNew) > 0 =>
    /\ KeysOf(mergeCur) \subseteq KeysOf(mergeOut)
    /\ \A k \in UncitedKeys : \A c \in KeysOf(mergeNew) :
         PositionOf(mergeOut, c) < PositionOf(mergeOut, k)
    /\ \A k1, k2 \in UncitedKeys :
         PositionOf(mergeCur, k1) < PositionOf(mergeCur, k2)
           => PositionOf(mergeOut, k1) < PositionOf(mergeOut, k2)

\* C22 witness: a registry [d2, d1, d3] merged with a turn that cites only d1
\* leaves d2 and d3 below it, d2 still before d3.
C22_Witness ==
  /\ KeySeq(mergeCur) = <<"d2-1", "d1-1", "d3-4">>
  /\ KeySeq(mergeNew) = <<"d1-1">>
  /\ KeySeq(mergeOut) = <<"d1-1", "d2-1", "d3-4">>

\* title, url, doc_date and snippet of a registry entry
DisplayFields(source) ==
  <<source.title, source.url, source.doc_date, source.snippet>>

\* this turn's record for key k (the last one when the turn lists k twice)
TurnRecord(k) ==
  mergeNew[CHOOSE i \in DOMAIN mergeNew :
             /\ SourceKey(mergeNew[i]) = k
             /\ \A j \in DOMAIN mergeNew : SourceKey(mergeNew[j]) = k => j <= i]

\* C23: after a merge of a non-empty newSources, the entry of every key of
\* newSources shows the title, url, doc_date and snippet of this turn's
\* record, and the entry of a key only the old registry has is the old entry
\* but for its rank.
C23_MetadataRefresh ==
  Len(mergeNew) > 0 =>
    /\ \A k \in KeysOf(mergeNew) :
         /\ PositionOf(mergeOut, k) > 0
         /\ DisplayFields(mergeOut[PositionOf(mergeOut, k)]) = DisplayFields(TurnRecord(k))
    /\ \A k \in UncitedKeys :
         /\ PositionOf(mergeOut, k) > 0
         /\ LET old == mergeCur[PositionOf(mergeCur, k)]
            IN  [mergeOut[PositionOf(mergeOut, k)] EXCEPT !.rank = old.rank] = old

\* C23 witness: d1 was registered as "Alpha", is cited again as "Alpha,
\* revised" and shows the new title, while d2, not cited, moved to rank 2.
C23_Witness ==
  /\ Len(mergeCur) = 2 /\ Len(mergeNew) = 1 /\ Len(mergeOut) = 2
  /\ mergeCur[2].title = "Alpha"
  /\ mergeNew[1].title = "Alpha, revised"
  /\ mergeOut[1].title = "Alpha, revised"
  /\ mergeCur[1].doc_id = "d2" /\ mergeOut[2].doc_id = "d2"


\* C24: in a turn without web search whose answer has k distinct citation
\* numbers and whose source list has m < k entries, no compact number t > m
\* has an entry in the final mapping, every marker that carries t after Stage A
\* shows [t] in the finalized text, and the message is committed with
\* streaming = false.
C24_CitationResolutionMiss ==
  remapMessage.sender = "bot" =>
    LET raw == MarkerNums(remapData.answer_md)
        cits == citationsInText(remapData.answer_md)
        shown == MarkerNums(remapMessage.text)
        m == Len(remapMessage.context)
    IN  Len(cits) > m =>
          /\ \A t \in (m + 1) .. Len(cits) : t \notin DOMAIN remapMessage.citation_mapping
          /\ Len(shown) = Len(raw)
          /\ \A i \in DOMAIN raw :
               IndexOf(cits, raw[i]) > m => shown[i] = IndexOf(cits, raw[i])
          /\ remapMessage.streaming = FALSE


\* the finalized message turn t has put in the list in this step, if any
Finalized(t) ==
  {messages'[i] : i \in {j \in DOMAIN messages' :
                           /\ messages'[j].id = 2 * t
                           /\ ~Field(messages'[j], "streaming", TRUE)}}

\* C25: when a turn started with useWebSearch = true completes, the text of
\* its finalized message is the Stage-A text of the raw answer (no marker is
\* rewritten to a registry rank) and the message's final citation mapping is
\* empty.
C25_WebSearchSkipsStageB ==
  [][\A t \in Turns :
       (t \in settled' \ settled /\ streams[t].useWebSearch) =>
         \A msg \in Finalized(t) :
           /\ msg.text = updatedAnswerText(streams[t].accumulatedText)
           /\ msg.citation_mapping = <<>>]_vars


\* an event the read loop can parse and handle
WellFormed(event) ==
  /\ event.type # "truncated"
  /\ event.type = "metadata" => "sources" \in Range(event.chunk)

\* what the read loop makes of the given events arriving in one read
OutcomeOf(events) ==
  ProcessLines(SplitLines(EncodeBody(events), <<>>),
               [text |-> <<>>, sources |-> "empty", buffer |-> <<>>, done |-> FALSE,
                final |-> <<>>])

\* C26: a malformed event is skipped and the events after it are processed:
\* whatever has been read, the text, the buffer and the completion of the turn
\* are those of the same events without the malformed ones; a done event
\* after a malformed event completes the turn.
C26_MalformedEventsSkipped ==
  LET ref == OutcomeOf(SelectSeq(EventsRead, WellFormed))
  IN  /\ wireText = ref.text
      /\ wireBuffer = ref.buffer
      /\ wireDone = ref.done
      /\ wireFinal = ref.final


\* the sources a done event embeds: its sources field or, when that is
\* empty, the sources of its metadata
EmbeddedSources(event) ==
  IF Len(event.sources) > 0 THEN event.sources
  ELSE Field(event.metadata, "sources", <<>>)

\* finalData of a turn with the given answer whose metadata event delivered
\* the sources and the model name of `event` and whose done event embeds
\* nothing
ViaMetadataEvent(answer, event) ==
  [answer_md |-> answer,
   sources |-> EmbeddedSources(event),
   used_model |-> event.metadata.used_model,
   latency_ms |-> event.latency_ms,
   metadata |-> [used_model |-> event.metadata.used_model]]

\* C27: a turn that received no metadata event is finalized with the sources
\* and the model name its done event embeds, and ends with the message and
\* the registry of a turn whose metadata event delivered the same sources.
C27_MetadataFallback ==
  [][remapMessage' # remapMessage =>
       LET ref == ViaMetadataEvent(remapData'.answer_md, remapEvent')
       IN  /\ remapMessage'.context = MapContext(EmbeddedSources(remapEvent'))
           /\ remapMessage'.used_model = remapEvent'.metadata.used_model
           /\ remapMessage' = completedMessage(1, ref, remapRegistry)
           /\ remapRegistry' = RearrangedSources(ref, remapRegistry)]_vars

\* C27 witness: a done event with two sources updated a registry that already
\* had entries, with no metadata event before it.
C27_Witness ==
  /\ remapMessage.sender = "bot"
  /\ Len(remapEvent.sources) = 2
  /\ Len(remapMessage.context) = 2
  /\ remapMessage.used_model = "model"
  /\ Len(remapRegistry) = 2


\* C28: the accumulated registry changes only when the done event of the
\* current turn is handled and that turn was started without web search, or
\* at New Chat: no metadata, content or error event, no tick and no event of
\* another turn changes it.
C28_RegistryFrozenMidTurn ==
  [][accumulatedSources' # accumulatedSources =>
       \/ NewChatStep
       \/ /\ turnCount \in settled' \ settled
          /\ ~streams[turnCount].useWebSearch]_vars


\* a content event of turn t is handled in this step
ContentStep(t) == streams'[t].chunks = streams[t].chunks + 1

\* C29: handling a content event changes the buffer and nothing else the UI
\* shows: the message list and displayed stay as they are; and the text of a
\* message that is streaming before and after a step changes only in a tick of
\* the timer of that message, which leaves the buffer alone and sets the text
\* to the new value of displayed.
C29_ProducerConsumerDecoupling ==
  [][/\ \A t \in Turns :
          ContentStep(t) =>
            /\ streamBufferRef' = streams'[t].accumulatedText
            /\ UNCHANGED <<messages, displayedTextRef, accumulatedSources, isGenerating,
                           isWebSearching, error, lastAnswer, streamIntervalRef>>
     /\ \A i \in DOMAIN messages : \A j \in DOMAIN messages' :
          (/\ messages[i].id = messages'[j].id
           /\ Field(messages[i], "streaming", FALSE)
           /\ Field(messages'[j], "streaming", FALSE)
           /\ messages[i].text # messages'[j].text)
            => /\ streamIntervalRef = messages[i].id
               /\ UNCHANGED <<streams, streamBufferRef, streamIntervalRef>>
               /\ messages'[j].text = displayedTextRef'
               /\ displayedTextRef' # displayedTextRef]_vars

\* C29 witness: content events have filled the buffer with a whole answer
\* while the placeholder shows the one character a tick has revealed.
C29_Witness ==
  /\ Len(streamBufferRef) = 3
  /\ Len(displayedTextRef) = 1
  /\ \E i \in DOMAIN messages :
       /\ Field(messages[i], "streaming", FALSE)
       /\ messages[i].id = streamIntervalRef
       /\ messages[i].text = displayedTextRef


\* the done event of turn t is handled in this step (only onComplete makes
\* the message of a turn that settles the last answer)
CompletionStep(t) == t \in settled' \ settled /\ lastAnswer' = 2 * t

\* C30: when the done event of a turn is handled, its placeholder is replaced
\* where it stands (same id, same position, same length of the list) by the
\* completed message, which has streaming = false and the rewritten final
\* text whatever part of the answer was displayed; no other message changes.
C30_WholesaleFinalization ==
  [][\A t \in Turns :
       CompletionStep(t) =>
         /\ Len(messages') = Len(messages)
         /\ \E i \in DOMAIN messages :
              /\ messages[i].id = 2 * t
              /\ Field(messages[i], "streaming", FALSE)
              /\ ~messages'[i].streaming
              /\ \E event \in DoneEvents :
                   messages'[i] = completedMessage(2 * t, FinalData(streams[t], event),
                                                   streams[t].capturedSources)
              /\ \A j \in DOMAIN messages \ {i} : messages'[j] = messages[j]]_vars


\* the sources of the turn whose evidence_id is e
WithEvidence(sources, e) == {k \in DOMAIN sources : sources[k].evidence_id = e}

\* C31: in a turn without web search, a marker [e] of the raw answer such that
\* exactly one source of the turn has evidence_id = e is shown in the
\* finalized text, at the same position, as [r], where the registry entry of
\* rank r has the doc_id and pageno of that source.
C31_EvidenceCorrespondence ==
  remapMessage.sender = "bot" =>
    LET raw == MarkerNums(remapData.answer_md)
        shown == MarkerNums(remapMessage.text)
        sources == remapData.sources
    IN  /\ Len(shown) = Len(raw)
        /\ \A i \in DOMAIN raw :
             Cardinality(WithEvidence(sources, raw[i])) = 1 =>
               LET k == CHOOSE k \in WithEvidence(sources, raw[i]) : TRUE
               IN  /\ shown[i] \in DOMAIN remapRegistry
                   /\ SourceKey(remapRegistry[shown[i]])
                        = SourceKey(ContextEntry(sources[k], k))


\* the keys of the turn's sources are pairwise distinct
DistinctKeys(context) ==
  \A i, j \in DOMAIN context : SourceKey(context[i]) = SourceKey(context[j]) => i = j

\* C32: in a turn without web search whose sources have pairwise distinct
\* keys, the i-th source of the turn has rank i in the reconciled registry
\* whatever the registry was, the final mapping sends every compact number
\* t <= number of sources to t (and has no other entry), and the finalized
\* text is the Stage-A text.
C32_StageBIdentity ==
  (remapMessage.sender = "bot" /\ DistinctKeys(remapMessage.context)) =>
    LET context == remapMessage.context
        k == Len(citationsInText(remapData.answer_md))
    IN  /\ \A i \in DOMAIN context :
             /\ i \in DOMAIN remapRegistry
             /\ SourceKey(remapRegistry[i]) = SourceKey(context[i])
             /\ remapRegistry[i].rank = i
        /\ DOMAIN remapMessage.citation_mapping = 1 .. Min(k, Len(context))
        /\ \A t \in 1 .. Min(k, Len(context)) : remapMessage.citation_mapping[t] = t
        /\ remapMessage.text = updatedAnswerText(remapData.answer_md)

\* C32 witness: a turn listing d2 then d1 and citing two numbers, finalized on
\* a registry that held d1 before d2 or did not hold both.
C32_Witness ==
  /\ remapMessage.sender = "bot"
  /\ Len(remapMessage.context) = 2
  /\ remapMessage.context[1].doc_id = "d2"
  /\ remapMessage.context[2].doc_id = "d1"
  /\ Len(citationsInText(remapData.answer_md)) = 2
  /\ remapRegistry[1].doc_id = "d2"
  /\ remapMessage.citation_mapping = <<1, 2>>


\* C33: the finalized message of a turn has used_web_search = true exactly
\* when the turn was started with useWebSearch = true (so that 'Search the
\* Web' is not offered on the answer of a web-search turn).
C33_WebSearchFlagPropagation ==
  [][\A t \in Turns :
       CompletionStep(t) =>
         \A msg \in Finalized(t) : msg.used_web_search = streams[t].useWebSearch]_vars


\* the positions of the messages that are streaming
StreamingAt == {i \in DOMAIN messages : Field(messages[i], "streaming", FALSE)}

\* C34: at most one message has streaming = true, it is a bot message, and no
\* message has streaming = true while isGenerating is false.
C34_StreamingFlagConsistency ==
  /\ Cardinality(StreamingAt) <= 1
  /\ \A i \in StreamingAt : messages[i].sender = "bot"
  /\ ~isGenerating => StreamingAt = {}


\* C35: within a conversation the registry only grows: every step other than
\* New Chat leaves in the accumulated registry every key it held.
C35_RegistryOnlyGrows ==
  [][~NewChatStep => KeysOf(accumulatedSources) \subseteq KeysOf(accumulatedSources')]_vars

=============================================================================
